---- MODULE Spec2Model ----
(***************************************************************************)
(* Model of preprocess.py: the four record transforms, process_data and    *)
(* the batch driver main.                                                  *)
(*                                                                         *)
(* Python str values of a record are sequences of one-character strings,   *)
(* so that split(',') and + are computed character by character.  A dict   *)
(* is the sequence of its <<key, value>> pairs in insertion order, with    *)
(* pairwise distinct keys.  Path names are TLA+ strings.                   *)
(***************************************************************************)
EXTENDS Integers, Sequences, FiniteSets, TLC

\* ---------------------------------------------------------------- bounds
MaxAnnLen == 3      \* longest `annotations` string drawn
MaxRecords == 2     \* most key/record pairs in the text of one input file
MaxRuns == 2        \* runs of main in a row

\* ------------------------------------------------------ Python primitives
\* dict: k in d
HasKey(d, k) == \E i \in 1..Len(d) : d[i][1] = k

\* dict: d[k], for a key that is present
GetItem(d, k) == d[CHOOSE i \in 1..Len(d) : d[i][1] = k][2]

\* dict.get(k, default)
Get(d, k, default) == IF HasKey(d, k) THEN GetItem(d, k) ELSE default

\* dict.values(), in iteration order
Values(d) == [i \in 1..Len(d) |-> d[i][2]]

\* a JSON number as json.load returns it: an int, or a float of v tenths
PyInt(n) == [kind |-> "int", v |-> n]
PyFloat(t) == [kind |-> "float", v |-> t]

Digit(n) == CASE n = 0 -> "0" [] n = 1 -> "1" [] n = 2 -> "2" [] n = 3 -> "3"
              [] n = 4 -> "4" [] n = 5 -> "5" [] n = 6 -> "6" [] n = 7 -> "7"
              [] n = 8 -> "8" [] n = 9 -> "9"

RECURSIVE Digits(_)
Digits(n) == IF n < 10 THEN <<Digit(n)>> ELSE Digits(n \div 10) \o <<Digit(n % 10)>>

\* str(x) of a number: "0", "1" for ints, "0.2", "1.0" for floats
Str(x) == IF x.kind = "int" THEN Digits(x.v)
          ELSE Digits(x.v \div 10) \o <<".">> \o Digits(x.v % 10)

\* mutant of Split: empty segments are dropped, as s.split() does for blanks
RECURSIVE SplitDroppingEmpty(_)
SplitDroppingEmpty(s) ==
    IF \A i \in 1..Len(s) : s[i] # ","
    THEN IF s = <<>> THEN <<>> ELSE <<s>>
    ELSE LET i == CHOOSE j \in 1..Len(s) :
                      s[j] = "," /\ \A k \in 1..(j - 1) : s[k] # ","
         IN  (IF i = 1 THEN <<>> ELSE <<SubSeq(s, 1, i - 1)>>)
             \o SplitDroppingEmpty(SubSeq(s, i + 1, Len(s)))

\* s.split(','): the segments between the commas, empty ones kept
RECURSIVE Split(_)
Split(s) == IF \A i \in 1..Len(s) : s[i] # ","
            THEN <<s>>
            ELSE LET i == CHOOSE j \in 1..Len(s) :
                              s[j] = "," /\ \A k \in 1..(j - 1) : s[k] # ","
                 IN  <<SubSeq(s, 1, i - 1)>> \o Split(SubSeq(s, i + 1, Len(s)))

\* ------------------------------------------------------------ transforms
\* the literal appended to `text` by every transform
QuestionSuffix == <<" ", "h", "a", "t", "e", " ", "s", "p", "e", "e", "c", "h", " ", "o", "r", " ", "n", "o", "t", " ", "(", "0", "/", "1", ")", "?">>

\* the outcome of a call: a returned value, or a raised exception
Return(v) == [ok |-> TRUE, value |-> v]
Raise(exc, what) == [ok |-> FALSE, exc |-> exc, what |-> what]

\* original_data[k] for each k of keys, in evaluation order: the first absent one
MissingKeys(r, keys) == {i \in 1..Len(keys) : keys[i] \notin DOMAIN r}
FirstMissing(r, keys) == keys[CHOOSE i \in MissingKeys(r, keys) :
                                 \A j \in MissingKeys(r, keys) : i <= j]

\* [{'title': '', 'text': x} for x in xs]
Ctxs(xs) == [i \in 1..Len(xs) |-> [title |-> <<>>, text |-> xs[i]]]

from_annotations_to_hard_label(r) ==
    LET keys == <<"text", "hard_label", "annotations">>
    IN  IF MissingKeys(r, keys) # {}
        THEN Raise("KeyError", FirstMissing(r, keys))
        ELSE Return([question |-> r.text \o QuestionSuffix,
                     target   |-> r.hard_label,
                     answers  |-> <<r.hard_label>>,
                     ctxs     |-> Ctxs(Split(r.annotations))])

\* mutant of from_soft_to_hard_label: iterates soft_label itself, i.e. its keys
soft_to_hard_label_over_keys(r) ==
    LET keys == <<"text", "hard_label", "soft_label">>
    IN  IF MissingKeys(r, keys) # {}
        THEN Raise("KeyError", FirstMissing(r, keys))
        ELSE Return([question |-> r.text \o QuestionSuffix,
                     target   |-> r.hard_label,
                     answers  |-> <<r.hard_label>>,
                     ctxs     |-> Ctxs([i \in 1..Len(r.soft_label) |->
                                           <<r.soft_label[i][1]>>])])

\* mutant of from_soft_to_hard_label: it also looks annotations up
soft_to_hard_label_reading_annotations(r) ==
    LET keys == <<"text", "hard_label", "soft_label", "annotations">>
    IN  IF MissingKeys(r, keys) # {}
        THEN Raise("KeyError", FirstMissing(r, keys))
        ELSE Return([question |-> r.text \o QuestionSuffix,
                     target   |-> r.hard_label,
                     answers  |-> <<r.hard_label>>,
                     ctxs     |-> Ctxs([i \in 1..Len(r.soft_label) |->
                                           Str(Values(r.soft_label)[i])])])

from_soft_to_hard_label(r) ==
    LET keys == <<"text", "hard_label", "soft_label">>
    IN  IF MissingKeys(r, keys) # {}
        THEN Raise("KeyError", FirstMissing(r, keys))
        ELSE Return([question |-> r.text \o QuestionSuffix,
                     target   |-> r.hard_label,
                     answers  |-> <<r.hard_label>>,
                     ctxs     |-> Ctxs([i \in 1..Len(r.soft_label) |->
                                           Str(Values(r.soft_label)[i])])])

\* mutant of from_annotations_to_soft_label: the default is the float 0.0
soft_label_float_default(r) ==
    LET keys == <<"soft_label", "text", "annotations">>
    IN  IF MissingKeys(r, keys) # {}
        THEN Raise("KeyError", FirstMissing(r, keys))
        ELSE LET soft_label_1_prob == Str(Get(r.soft_label, "1", PyFloat(0)))
             IN  Return([question |-> r.text \o QuestionSuffix,
                         target   |-> soft_label_1_prob,
                         answers  |-> <<soft_label_1_prob>>,
                         ctxs     |-> Ctxs(Split(r.annotations))])

from_annotations_to_soft_label(r) ==
    LET keys == <<"soft_label", "text", "annotations">>
    IN  IF MissingKeys(r, keys) # {}
        THEN Raise("KeyError", FirstMissing(r, keys))
        ELSE LET soft_label_1_prob == Str(Get(r.soft_label, "1", PyInt(0)))
             IN  Return([question |-> r.text \o QuestionSuffix,
                         target   |-> soft_label_1_prob,
                         answers  |-> <<soft_label_1_prob>>,
                         ctxs     |-> Ctxs(Split(r.annotations))])

\* mutant of from_annotations_to_soft_labels: the "/" separates the two numbers
soft_labels_slash_between(r) ==
    LET keys == <<"soft_label", "text", "annotations">>
    IN  IF MissingKeys(r, keys) # {}
        THEN Raise("KeyError", FirstMissing(r, keys))
        ELSE LET soft_label_1_prob == Str(Get(r.soft_label, "0", PyInt(0)))
                                      \o <<"/">>
                                      \o Str(Get(r.soft_label, "1", PyInt(0)))
             IN  Return([question |-> r.text \o QuestionSuffix,
                         target   |-> soft_label_1_prob,
                         answers  |-> <<soft_label_1_prob>>,
                         ctxs     |-> Ctxs(Split(r.annotations))])

from_annotations_to_soft_labels(r) ==
    LET keys == <<"soft_label", "text", "annotations">>
    IN  IF MissingKeys(r, keys) # {}
        THEN Raise("KeyError", FirstMissing(r, keys))
        ELSE LET soft_label_1_prob == Str(Get(r.soft_label, "0", PyInt(0)))
                                      \o Str(Get(r.soft_label, "1", PyInt(0)))
                                      \o <<"/">>
             IN  Return([question |-> r.text \o QuestionSuffix,
                         target   |-> soft_label_1_prob,
                         answers  |-> <<soft_label_1_prob>>,
                         ctxs     |-> Ctxs(Split(r.annotations))])

\* function(entry), by the function's __name__
Call(function, entry) ==
    CASE function = "from_annotations_to_hard_label" ->
             from_annotations_to_hard_label(entry)
      [] function = "from_soft_to_hard_label" ->
             from_soft_to_hard_label(entry)
      [] function = "from_annotations_to_soft_label" ->
             from_annotations_to_soft_label(entry)
      [] function = "from_annotations_to_soft_labels" ->
             from_annotations_to_soft_labels(entry)

\* ---------------------------------------------------------- process_data
\* what json.load returned: a dict (JSON object) or a list (JSON array)
PyDict(items) == [type |-> "dict", items |-> items]
PyList(items) == [type |-> "list", items |-> items]

\* mutant of process_data: the result keeps the keys, as a dict's items
process_data_keyed(function, data) ==
    IF data.type # "dict"
    THEN Raise("AttributeError", "items")
    ELSE LET results == [i \in 1..Len(data.items) |-> Call(function, data.items[i][2])]
             failing == {i \in 1..Len(results) : ~results[i].ok}
         IN  IF failing # {}
             THEN results[CHOOSE i \in failing : \A j \in failing : i <= j]
             ELSE Return([i \in 1..Len(results) |->
                             <<data.items[i][1], results[i].value>>])

\* [function(entry) for _, entry in data.items()]: the entries in iteration
\* order, the keys dropped; the first exception raised ends the call
process_data(function, data) ==
    IF data.type # "dict"
    THEN Raise("AttributeError", "items")
    ELSE LET results == [i \in 1..Len(data.items) |-> Call(function, data.items[i][2])]
             failing == {i \in 1..Len(results) : ~results[i].ok}
         IN  IF failing # {}
             THEN results[CHOOSE i \in failing : \A j \in failing : i <= j]
             ELSE Return([i \in 1..Len(results) |-> results[i].value])

\* ------------------------------------------------------------------ main
\* the hardcoded lists of main
file_names ==
    << <<"H", "S", "-", "B", "r", "e", "x", "i", "t", "_", "t", "e", "s", "t",
       ".", "j", "s", "o", "n">>,
       <<"H", "S", "-", "B", "r", "e", "x", "i", "t", "_", "d", "e", "v", ".",
       "j", "s", "o", "n">>,
       <<"H", "S", "-", "B", "r", "e", "x", "i", "t", "_", "t", "r", "a", "i",
       "n", ".", "j", "s", "o", "n">> >>

functions == << "from_annotations_to_hard_label", "from_soft_to_hard_label",
                "from_annotations_to_soft_label", "from_annotations_to_soft_labels" >>

\* function.__name__
FunctionName(function) ==
    CASE function = "from_annotations_to_hard_label" ->
             <<"f", "r", "o", "m", "_", "a", "n", "n", "o", "t", "a", "t",
             "i", "o", "n", "s", "_", "t", "o", "_", "h", "a", "r", "d", "_",
             "l", "a", "b", "e", "l">>
      [] function = "from_soft_to_hard_label" ->
             <<"f", "r", "o", "m", "_", "s", "o", "f", "t", "_", "t", "o",
             "_", "h", "a", "r", "d", "_", "l", "a", "b", "e", "l">>
      [] function = "from_annotations_to_soft_label" ->
             <<"f", "r", "o", "m", "_", "a", "n", "n", "o", "t", "a", "t",
             "i", "o", "n", "s", "_", "t", "o", "_", "s", "o", "f", "t", "_",
             "l", "a", "b", "e", "l">>
      [] function = "from_annotations_to_soft_labels" ->
             <<"f", "r", "o", "m", "_", "a", "n", "n", "o", "t", "a", "t",
             "i", "o", "n", "s", "_", "t", "o", "_", "s", "o", "f", "t", "_",
             "l", "a", "b", "e", "l", "s">>

\* a pathlib.Path: the directory and the final component
DataDir == "data_post-competition/HS-Brexit_dataset"
Path(parent, name) == [parent |-> parent, name |-> name]

\* "./data_post-competition/HS-Brexit_dataset/" / Path(file_name)
FilePath(file_name) == Path(DataDir, file_name)

\* Path.stem: the final component without its last suffix
Stem(path) ==
    LET name == path.name
        dots == {i \in 2..Len(name) : name[i] = "."}
    IN  IF dots = {} \/ name[Len(name)] = "."
        THEN name
        ELSE SubSeq(name, 1, (CHOOSE i \in dots : \A j \in dots : j <= i) - 1)

\* mutant of NewFilePath: the function's name is left out of the file name
NewFilePathPerFile(file_path, function) ==
    Path(file_path.parent,
         Stem(file_path) \o <<"_", "o", "u", "t", ".", "j", "s", "o", "n">>)

\* file_path.parent / f"{file_path.stem}_{function.__name__}.json"
NewFilePath(file_path, function) ==
    Path(file_path.parent,
         Stem(file_path) \o <<"_">> \o FunctionName(function)
                         \o <<".", "j", "s", "o", "n">>)

\* ------------------------------------------------------------ JSON, files
\* The content of a file is the sequence of JSON documents its bytes spell
\* out: <<>> for an empty file, one document for a well-formed JSON file.
\* A document that is no JSON at all has kind "garbage".
Indent == 4

JsonDoc(kind, body, indent) == [kind |-> kind, body |-> body, indent |-> indent]

\* d[k] = v on a dict: a new key goes last, a known key keeps its place
SetItem(d, k, v) ==
    IF HasKey(d, k)
    THEN [i \in 1..Len(d) |-> IF d[i][1] = k THEN <<k, v>> ELSE d[i]]
    ELSE Append(d, <<k, v>>)

\* dict(pairs), as json builds the dict of a JSON object: later pairs win
RECURSIVE DictOf(_)
DictOf(pairs) ==
    IF pairs = <<>>
    THEN <<>>
    ELSE LET last == pairs[Len(pairs)]
         IN  SetItem(DictOf(SubSeq(pairs, 1, Len(pairs) - 1)), last[1], last[2])

\* json.load(file) on a file of the given content
json_load(content) ==
    IF Len(content) # 1 \/ content[1].kind = "garbage"
    THEN Raise("JSONDecodeError", "json")
    ELSE IF content[1].kind = "object"
         THEN Return(PyDict(DictOf(content[1].body)))
         ELSE Return(PyList(content[1].body))

\* the text json.dump(obj, file, indent=indent) writes for a list
json_dump(obj, indent) == JsonDoc("array", obj, indent)

\* mutant of OpenForWrite: mode 'a', an existing file keeps its content
OpenForAppend(fsys, path) ==
    IF path \in DOMAIN fsys THEN fsys ELSE (path :> <<>>) @@ fsys

\* open(path, 'w'): the file is created, or truncated to nothing
OpenForWrite(fsys, path) == (path :> <<>>) @@ fsys

\* file.write at the end of what the handle has written so far
WriteDoc(fsys, path, doc) == [fsys EXCEPT ![path] = @ \o <<doc>>]

\* mutant of ExitWith: the file object is never closed
ExitLeavingOpen(open_handles, path) == open_handles

\* leaving a `with open(...)` block, normally or by an exception
ExitWith(open_handles, path) == open_handles \ {path}

\* mutant of Uncaught: the exception is swallowed and the next file is taken
CaughtPerFile == "next_file"

\* where control goes when a statement of main raises: nothing catches it
Uncaught == "failed"

\* --------------------------------------------------------- state machine
VARIABLES
    pc,               \* the statement of main about to run
    run,              \* how many times main has been started
    file_index,       \* position of `file_name` in file_names
    function_index,   \* position of `function` in functions
    fs,               \* the file system: path -> content, for the files that exist
    handles,          \* paths of the file objects that are open
    data,             \* main's `data`
    processed_data,   \* main's `processed_data`
    error,            \* the exception that ended the run, if any
    log,              \* history: the file operations of this run, in order
    fs_start,         \* history: fs when this run started
    fs_done,          \* history: fs when the previous run completed
    original_data,    \* the record a transform is called on
    applied,          \* the transform that was called, "none" before the call
    reformatted_data  \* what the call returned or raised

mainVars == <<pc, run, file_index, function_index, fs, handles, data,
              processed_data, error, log, fs_start, fs_done>>
callVars == <<original_data, applied, reformatted_data>>
vars == <<pc, run, file_index, function_index, fs, handles, data,
          processed_data, error, log, fs_start, fs_done,
          original_data, applied, reformatted_data>>

None == [type |-> "None", items |-> <<>>]
NoError == [ok |-> TRUE, exc |-> "", what |-> ""]
Event(op, path) == [op |-> op, path |-> path]

file_path == FilePath(file_names[file_index])
function == functions[function_index]
new_file_path == NewFilePath(file_path, function)

\* ------------------------------------------------------ inputs that are drawn
Chars(alphabet, n) == UNION {[1..k -> alphabet] : k \in 0..n}

Numbers == {PyInt(1), PyFloat(0), PyFloat(2), PyFloat(8), PyFloat(10)}
SoftLabels ==
    {<<>>}
    \cup {<< <<k, x>> >> : k \in {"0", "1"}, x \in Numbers}
    \cup {<< <<"0", x>>, <<"1", y>> >> : x \in Numbers, y \in Numbers}
    \cup {<< <<"1", x>>, <<"0", y>> >> : x \in Numbers, y \in Numbers}

\* the records with exactly the fields `present`, drawn from the values given
RecordsWith(present, texts, hard_labels, annotations, soft_labels) ==
    LET Drawn(k, values) == IF k \in present THEN values
                            ELSE {CHOOSE v \in values : TRUE}
    IN  {[k \in present |-> CASE k = "text" -> t [] k = "hard_label" -> h
                              [] k = "annotations" -> a [] k = "soft_label" -> s] :
            t \in Drawn("text", texts), h \in Drawn("hard_label", hard_labels),
            a \in Drawn("annotations", annotations),
            s \in Drawn("soft_label", soft_labels)}

Fields == {"text", "hard_label", "annotations", "soft_label"}

\* the records the transforms are called on, annotations of at most n chars
CallRecords(n) ==
    UNION {RecordsWith(present, {<<>>, <<"a">>}, {<<"0">>, <<"1">>},
                       Chars({"1", ","}, n), SoftLabels) :
             present \in SUBSET Fields}

\* the records of the input files
RecA == [text |-> <<"a">>, hard_label |-> <<"1">>, annotations |-> <<"0", ",", "1">>,
         soft_label |-> << <<"0", PyFloat(2)>>, <<"1", PyFloat(8)>> >>]
RecB == [text |-> <<"b">>, hard_label |-> <<"0">>, annotations |-> <<"0">>,
         soft_label |-> << <<"0", PyFloat(10)>> >>]
RecC == [text |-> <<"c">>, hard_label |-> <<"1">>, annotations |-> <<"1">>]
FileRecords == {RecA, RecB, RecC}

\* the texts of JSON objects of at most MaxRecords "id": record pairs
ObjectDocs ==
    {JsonDoc("object", pairs, 0) :
        pairs \in UNION {[1..n -> {"1", "2"} \X FileRecords] : n \in 0..MaxRecords}}

\* contents of an input file: every shape for one file, a good file for the rest
RichContents == {<<d>> : d \in ObjectDocs}
                \cup {<<>>, <<JsonDoc("garbage", <<>>, 0)>>, <<JsonDoc("array", <<>>, 0)>>}
PlainContents == {<< JsonDoc("object", << <<"1", RecA>> >>, 0) >>}

StaleContent == <<JsonDoc("garbage", <<>>, 0)>>

InputPaths == {FilePath(file_names[i]) : i \in 1..Len(file_names)}
OutputPaths == {NewFilePath(p, functions[j]) : p \in InputPaths, j \in 1..Len(functions)}

\* ------------------------------------------------------------------ Init
\* Before main starts: one input file is absent or holds any of the contents
\* drawn, the others are good files, and the output files are all absent or
\* all left over from an earlier program.
InitialFs(present, content, stale) ==
    LET inputs == [p \in {FilePath(file_names[i]) : i \in present} |->
                      content[CHOOSE i \in present : FilePath(file_names[i]) = p]]
    IN  IF stale THEN inputs @@ [p \in OutputPaths |-> StaleContent] ELSE inputs

Init ==
    /\ \E rich \in 1..Len(file_names), exists \in BOOLEAN, stale \in BOOLEAN,
          r \in RichContents, p \in PlainContents :
          fs = InitialFs(IF exists THEN 1..Len(file_names)
                                   ELSE (1..Len(file_names)) \ {rich},
                         [i \in 1..Len(file_names) |-> IF i = rich THEN r ELSE p],
                         stale)
    /\ fs_start = fs
    /\ fs_done = fs
    /\ pc = "open_input"
    /\ run = 1
    /\ file_index = 1
    /\ function_index = 1
    /\ handles = {}
    /\ data = None
    /\ processed_data = <<>>
    /\ error = NoError
    /\ log = <<>>
    /\ original_data = RecA
    /\ applied = "none"
    /\ reformatted_data = NoError

\* --------------------------------------------------------------- actions
\* with open(file_path, 'r', encoding='utf-8') as file:
OpenInput ==
    /\ pc = "open_input"
    /\ IF file_path \in DOMAIN fs
       THEN /\ handles' = handles \cup {file_path}
            /\ log' = Append(log, Event("open_r", file_path))
            /\ pc' = "load"
            /\ error' = error
       ELSE /\ error' = Raise("FileNotFoundError", "open")
            /\ pc' = Uncaught
            /\ UNCHANGED <<handles, log>>
    /\ UNCHANGED <<run, file_index, function_index, fs, data, processed_data,
                   fs_start, fs_done, callVars>>

\* data = json.load(file); a decoding error leaves the with block
LoadJson ==
    /\ pc = "load"
    /\ LET loaded == json_load(fs[file_path])
       IN  IF loaded.ok
           THEN /\ data' = loaded.value
                /\ log' = Append(log, Event("read", file_path))
                /\ pc' = "close_input"
                /\ UNCHANGED <<handles, error>>
           ELSE /\ error' = loaded
                /\ handles' = ExitWith(handles, file_path)
                /\ log' = Append(log, Event("close", file_path))
                /\ pc' = Uncaught
                /\ data' = data
    /\ UNCHANGED <<run, file_index, function_index, fs, processed_data,
                   fs_start, fs_done, callVars>>

\* the end of the reading with block; `for function in functions` starts
CloseInput ==
    /\ pc = "close_input"
    /\ handles' = ExitWith(handles, file_path)
    /\ log' = Append(log, Event("close", file_path))
    /\ function_index' = 1
    /\ pc' = "process"
    /\ UNCHANGED <<run, file_index, fs, data, processed_data, error,
                   fs_start, fs_done, callVars>>

\* processed_data = process_data(function, data)
Process ==
    /\ pc = "process"
    /\ LET result == process_data(function, data)
       IN  IF result.ok
           THEN /\ processed_data' = result.value
                /\ pc' = "open_output"
                /\ error' = error
           ELSE /\ error' = result
                /\ pc' = Uncaught
                /\ processed_data' = processed_data
    /\ UNCHANGED <<run, file_index, function_index, fs, handles, data, log,
                   fs_start, fs_done, callVars>>

\* with open(new_file_path, 'w', encoding='utf-8') as new_file:
OpenOutput ==
    /\ pc = "open_output"
    /\ fs' = OpenForWrite(fs, new_file_path)
    /\ handles' = handles \cup {new_file_path}
    /\ log' = Append(log, Event("open_w", new_file_path))
    /\ pc' = "dump"
    /\ UNCHANGED <<run, file_index, function_index, data, processed_data, error,
                   fs_start, fs_done, callVars>>

\* json.dump(processed_data, new_file, indent=4)
Dump ==
    /\ pc = "dump"
    /\ fs' = WriteDoc(fs, new_file_path, json_dump(processed_data, Indent))
    /\ log' = Append(log, Event("write", new_file_path))
    /\ pc' = "close_output"
    /\ UNCHANGED <<run, file_index, function_index, handles, data, processed_data,
                   error, fs_start, fs_done, callVars>>

\* json.dump raises while writing (OSError: the disk is full): the file stays
\* as truncated by open, and the exception leaves the with block
DumpFails ==
    /\ pc = "dump"
    /\ error' = Raise("OSError", "write")
    /\ handles' = ExitWith(handles, new_file_path)
    /\ log' = Append(log, Event("close", new_file_path))
    /\ pc' = Uncaught
    /\ UNCHANGED <<run, file_index, function_index, fs, data, processed_data,
                   fs_start, fs_done, callVars>>

\* the end of the writing with block, and the next function if there is one
CloseOutput ==
    /\ pc = "close_output"
    /\ handles' = ExitWith(handles, new_file_path)
    /\ log' = Append(log, Event("close", new_file_path))
    /\ IF function_index < Len(functions)
       THEN /\ function_index' = function_index + 1
            /\ pc' = "process"
       ELSE /\ function_index' = function_index
            /\ pc' = "next_file"
    /\ UNCHANGED <<run, file_index, fs, data, processed_data, error,
                   fs_start, fs_done, callVars>>

\* `for file_name in file_names` takes the next name, or main returns
NextFile ==
    /\ pc = "next_file"
    /\ IF file_index < Len(file_names)
       THEN /\ file_index' = file_index + 1
            /\ pc' = "open_input"
       ELSE /\ file_index' = file_index
            /\ pc' = "done"
    /\ UNCHANGED <<run, function_index, fs, handles, data, processed_data, error,
                   log, fs_start, fs_done, callVars>>

\* the script is run again on the files the completed run left
Rerun ==
    /\ pc = "done"
    /\ run < MaxRuns
    /\ run' = run + 1
    /\ fs_done' = fs
    /\ fs_start' = fs
    /\ pc' = "open_input"
    /\ file_index' = 1
    /\ function_index' = 1
    /\ data' = None
    /\ processed_data' = <<>>
    /\ log' = <<>>
    /\ UNCHANGED <<fs, handles, error, callVars>>

Next ==
    \/ OpenInput
    \/ LoadJson
    \/ CloseInput
    \/ Process
    \/ OpenOutput
    \/ Dump
    \/ DumpFails
    \/ CloseOutput
    \/ NextFile
    \/ Rerun

Spec == Init /\ [][Next]_vars

\* ------------------------------------------- the transforms, one call each
InitCall ==
    /\ original_data \in CallRecords(MaxAnnLen)
    /\ applied = "none"
    /\ reformatted_data = NoError
    /\ fs = InitialFs({}, <<>>, FALSE)
    /\ fs_start = fs
    /\ fs_done = fs
    /\ pc = "idle"
    /\ run = 0
    /\ file_index = 1
    /\ function_index = 1
    /\ handles = {}
    /\ data = None
    /\ processed_data = <<>>
    /\ error = NoError
    /\ log = <<>>

CallTransform(f) ==
    /\ applied = "none"
    /\ applied' = f
    /\ reformatted_data' = Call(f, original_data)
    /\ UNCHANGED <<original_data, mainVars>>

CallHardLabel == CallTransform("from_annotations_to_hard_label")
CallSoftToHard == CallTransform("from_soft_to_hard_label")
CallSoftLabel == CallTransform("from_annotations_to_soft_label")
CallSoftLabels == CallTransform("from_annotations_to_soft_labels")

NextCall ==
    \/ CallHardLabel
    \/ CallSoftToHard
    \/ CallSoftLabel
    \/ CallSoftLabels

SpecCall == InitCall /\ [][NextCall]_vars

\* ================================================================ claims
\* helpers of the formulas below
Has(r, keys) == keys \subseteq DOMAIN r
Commas(s) == Cardinality({i \in 1..Len(s) : s[i] = ","})

RECURSIVE JoinWithCommas(_)
JoinWithCommas(segments) ==
    IF Len(segments) = 1
    THEN segments[1]
    ELSE segments[1] \o <<",">> \o JoinWithCommas(Tail(segments))

IsKeyError(result) == ~result.ok /\ result.exc = "KeyError"

\* the stringified soft_label[k], "0" when k is absent
ProbText(r, k) ==
    IF \E i \in 1..Len(r.soft_label) : r.soft_label[i][1] = k
    THEN Str(r.soft_label[CHOOSE i \in 1..Len(r.soft_label) : r.soft_label[i][1] = k][2])
    ELSE <<"0">>

\* C5: for every record r with text, hard_label and annotations,
\* from_annotations_to_hard_label(r) returns question = r.text followed by
\* " hate speech or not (0/1)?", target = r.hard_label, answers = [r.hard_label]
\* and one context {title: "", text: s} per comma-split segment s of
\* r.annotations, in order: as many contexts as commas plus one, none holding a
\* comma, and joined by commas they spell r.annotations again; an empty
\* annotations string gives exactly one context with empty text.
C5_HardLabelFromAnnotations ==
    (/\ applied = "from_annotations_to_hard_label"
     /\ Has(original_data, {"text", "hard_label", "annotations"}))
    => /\ reformatted_data.ok
       /\ LET out == reformatted_data.value
              r == original_data
          IN  /\ DOMAIN out = {"question", "target", "answers", "ctxs"}
              /\ out.question = r.text \o QuestionSuffix
              /\ out.target = r.hard_label
              /\ out.answers = <<r.hard_label>>
              /\ Len(out.ctxs) = Commas(r.annotations) + 1
              /\ \A i \in 1..Len(out.ctxs) :
                    /\ DOMAIN out.ctxs[i] = {"title", "text"}
                    /\ out.ctxs[i].title = <<>>
                    /\ Commas(out.ctxs[i].text) = 0
              /\ JoinWithCommas([i \in 1..Len(out.ctxs) |-> out.ctxs[i].text])
                    = r.annotations
              /\ r.annotations = <<>>
                    => out.ctxs = <<[title |-> <<>>, text |-> <<>>]>>

\* C5 witness: the call returned for annotations "1,,", three contexts, two empty
C5_Witness ==
    /\ applied = "from_annotations_to_hard_label"
    /\ Has(original_data, {"text", "hard_label", "annotations"})
    /\ original_data.annotations = <<"1", ",", ",">>
    /\ reformatted_data.ok
    /\ Len(reformatted_data.value.ctxs) = 3

C7_SoftLabelTarget ==
    (applied = "from_annotations_to_soft_label" /\ reformatted_data.ok)
    => LET out == reformatted_data.value
           r == original_data
       IN  /\ out.target = ProbText(r, "1")
           /\ out.answers = <<out.target>>
           /\ r.soft_label = << <<"0", PyFloat(10)>> >> => out.target = <<"0">>
           /\ r.soft_label = << <<"1", PyFloat(0)>> >> => out.target = <<"0", ".", "0">>

\* C7 witness: the call returned for soft_label {"0": 1.0}, which has no "1"
C7_Witness ==
    /\ applied = "from_annotations_to_soft_label"
    /\ reformatted_data.ok
    /\ original_data.soft_label = << <<"0", PyFloat(10)>> >>
    /\ reformatted_data.value.target = <<"0">>

\* C8: from_soft_to_hard_label(r).ctxs has one entry per key/value pair of
\* r.soft_label, the i-th being {title: "", text: str(i-th value)} in iteration
\* order; target and answers[0] are r.hard_label; and `annotations` plays no
\* part: the result is the same whatever annotations holds, or without it.
C8_SoftToHard ==
    (/\ applied = "from_soft_to_hard_label"
     /\ Has(original_data, {"text", "hard_label", "soft_label"}))
    => /\ reformatted_data.ok
       /\ LET out == reformatted_data.value
              r == original_data
          IN  /\ Len(out.ctxs) = Len(r.soft_label)
              /\ \A i \in 1..Len(out.ctxs) :
                    out.ctxs[i] = [title |-> <<>>, text |-> Str(r.soft_label[i][2])]
              /\ out.target = r.hard_label
              /\ out.answers[1] = r.hard_label
              /\ \A a \in Chars({"1", ","}, MaxAnnLen) :
                    from_soft_to_hard_label(
                        [k \in DOMAIN r \cup {"annotations"} |->
                            IF k = "annotations" THEN a ELSE r[k]]) = reformatted_data
              /\ from_soft_to_hard_label(
                     [k \in DOMAIN r \ {"annotations"} |-> r[k]]) = reformatted_data

\* C8 witness: the call returned for soft_label {"1": 1, "0": 0.2}, in that order
C8_Witness ==
    /\ applied = "from_soft_to_hard_label"
    /\ reformatted_data.ok
    /\ original_data.soft_label = << <<"1", PyInt(1)>>, <<"0", PyFloat(2)>> >>
    /\ "annotations" \in DOMAIN original_data
    /\ Len(reformatted_data.value.ctxs) = 2

\* C4 as stated: each transform raises KeyError whenever the record lacks any
\* one of text, hard_label, annotations, and a missing "0" or "1" key in
\* soft_label never makes a soft-label-based transform fail.
C4_AsStated ==
    applied # "none"
    => /\ ~Has(original_data, {"text", "hard_label", "annotations"})
             => IsKeyError(reformatted_data)
       /\ (/\ Has(original_data, Fields)
           /\ applied # "from_annotations_to_hard_label")
             => reformatted_data.ok

\* the fields each transform reads
FieldsRead(f) ==
    CASE f = "from_annotations_to_hard_label" -> {"text", "hard_label", "annotations"}
      [] f = "from_soft_to_hard_label" -> {"text", "hard_label", "soft_label"}
      [] f = "from_annotations_to_soft_label" -> {"text", "annotations", "soft_label"}
      [] f = "from_annotations_to_soft_labels" -> {"text", "annotations", "soft_label"}

\* C4 amended: a transform raises KeyError, naming an absent field, exactly
\* when the record lacks a field that transform reads (text for all four,
\* hard_label for the two hard-label transforms, annotations for the three
\* from_annotations_* transforms, soft_label for the three that read it);
\* otherwise it returns a record, whichever keys soft_label holds.
C4_MissingFieldRead ==
    applied # "none"
    => /\ ~Has(original_data, FieldsRead(applied))
             => /\ IsKeyError(reformatted_data)
                /\ reformatted_data.what \in FieldsRead(applied) \ DOMAIN original_data
       /\ Has(original_data, FieldsRead(applied)) => reformatted_data.ok

\* C4 witness: from_soft_to_hard_label returned for a record without annotations
C4_Witness ==
    /\ applied = "from_soft_to_hard_label"
    /\ DOMAIN original_data = {"text", "hard_label", "soft_label"}
    /\ original_data.soft_label = <<>>
    /\ reformatted_data.ok

\* ---------------------------------------------------- helpers for main
\* position of the pair (file i, function j) in the order main takes them
PairIndex(i, j) == (i - 1) * Len(functions) + j
Pairs == (1..Len(file_names)) \X (1..Len(functions))
OutputOf(i, j) == NewFilePath(FilePath(file_names[i]), functions[j])

\* the paths this run wrote to, in order
Written == LET writes == SelectSeq(log, LAMBDA e : e.op = "write")
           IN  [k \in 1..Len(writes) |-> writes[k].path]

\* the records of a JSON object's "id": record pairs as a dict iterates them:
\* one per distinct id, ordered by the id's first place, valued by its last
Ids(pairs) == {pairs[k][1] : k \in 1..Len(pairs)}
FirstPlace(pairs, id) == CHOOSE k \in 1..Len(pairs) :
                            pairs[k][1] = id /\ \A m \in 1..(k - 1) : pairs[m][1] # id
LastPlace(pairs, id) == CHOOSE k \in 1..Len(pairs) :
                           pairs[k][1] = id /\ \A m \in (k + 1)..Len(pairs) : pairs[m][1] # id
RecordsOf(pairs) ==
    [n \in 1..Cardinality(Ids(pairs)) |->
        LET id == CHOOSE x \in Ids(pairs) :
                     Cardinality({y \in Ids(pairs) :
                                     FirstPlace(pairs, y) <= FirstPlace(pairs, x)}) = n
        IN  pairs[LastPlace(pairs, id)][2]]

StemSpelled(i) ==
    CASE i = 1 -> <<"H", "S", "-", "B", "r", "e", "x", "i", "t", "_", "t",
                  "e", "s", "t">>
      [] i = 2 -> <<"H", "S", "-", "B", "r", "e", "x", "i", "t", "_", "d",
                  "e", "v">>
      [] i = 3 -> <<"H", "S", "-", "B", "r", "e", "x", "i", "t", "_", "t",
                  "r", "a", "i", "n">>

NameSpelled(i, j) ==
    StemSpelled(i) \o <<"_">> \o FunctionName(functions[j]) \o <<".", "j", "s", "o", "n">>

\* the names of the (file, function) pairs, as spelled out, are all different
NamesDiffer ==
    \A p \in Pairs, q \in Pairs :
       p # q => NameSpelled(p[1], p[2]) # NameSpelled(q[1], q[2])

\* C2: the k-th file a run writes is that of the k-th (file, function) pair,
\* named <stem of F>_<name of T>.json in F's directory; the names of all pairs
\* differ, so no write goes to a path that another pair's output was written
\* to, and a completed run has written exactly one file per pair.
C2_OneOutputPerPair ==
    /\ NamesDiffer
    /\ \A k \in 1..Len(Written) :
          LET i == ((k - 1) \div Len(functions)) + 1
              j == ((k - 1) % Len(functions)) + 1
          IN  /\ i \in 1..Len(file_names)
              /\ PairIndex(i, j) = k
              /\ Written[k] = Path(FilePath(file_names[i]).parent, NameSpelled(i, j))
              /\ Written[k] \in DOMAIN fs
    /\ \A k \in 1..Len(Written), m \in 1..Len(Written) :
          k # m => Written[k] # Written[m]
    /\ pc = "done" => /\ Len(Written) = Len(file_names) * Len(functions)
                      /\ OutputPaths \subseteq DOMAIN fs
                      /\ Cardinality(OutputPaths) = Len(file_names) * Len(functions)

\* C2 witness: a completed first run that started with no output file
C2_Witness ==
    /\ pc = "done"
    /\ run = 1
    /\ DOMAIN fs_start = InputPaths
    /\ Cardinality(DOMAIN fs) = Len(file_names) + Len(file_names) * Len(functions)

\* the pairs main had finished when the exception `error` was raised at
\* (file_index, function_index): reading a file fails before any of its pairs
Finished(i, j) ==
    \/ i < file_index
    \/ /\ i = file_index
       /\ error.exc \in {"KeyError", "AttributeError"}
       /\ j < function_index

SameFile(f, g, path) ==
    /\ path \in DOMAIN f <=> path \in DOMAIN g
    /\ path \in DOMAIN f => f[path] = g[path]

\* C3: once reading or parsing an input file, or applying a transform, has
\* failed, the run is over: no statement of main runs any more, no file handle
\* is left open, no later input file was opened, no output of the failing or
\* a later pair was opened or written (such a file is as the run found it),
\* and the output of every pair finished before still holds what was written.
C3_FailFastNoRollback ==
    (~error.ok /\ error.exc # "OSError")
    => /\ pc = "failed"
       /\ ~ENABLED Next
       /\ \A i \in 1..Len(file_names) :
             i > file_index
                => \A k \in 1..Len(log) : log[k].path # FilePath(file_names[i])
       /\ \A p \in Pairs :
             IF Finished(p[1], p[2])
             THEN /\ OutputOf(p[1], p[2]) \in DOMAIN fs
                  /\ fs[OutputOf(p[1], p[2])] =
                        <<json_dump(process_data(functions[p[2]],
                             json_load(fs[FilePath(file_names[p[1]])]).value).value,
                             Indent)>>
             ELSE /\ \A k \in 1..Len(log) : log[k].path # OutputOf(p[1], p[2])
                  /\ SameFile(fs, fs_start, OutputOf(p[1], p[2]))
       /\ \A path \in InputPaths : SameFile(fs, fs_start, path)

\* C3 witness: the second file's second transform raised KeyError, after the
\* first file's four outputs and the second file's first output were written
C3_Witness ==
    /\ pc = "failed"
    /\ ~error.ok
    /\ error.exc = "KeyError"
    /\ file_index = 2
    /\ function_index = 2
    /\ Len(Written) = Len(functions) + 1
    /\ FilePath(file_names[3]) \in DOMAIN fs

\* C9: when a run of main completes that started from the files a completed
\* run left, it has written every (file, function) output again and the file
\* system is as the earlier run left it: the same files, each with the same
\* content, the input files included.
C9_RerunIdempotent ==
    (pc = "done" /\ run > 1)
    => /\ Len(Written) = Len(file_names) * Len(functions)
       /\ DOMAIN fs = DOMAIN fs_done
       /\ \A path \in DOMAIN fs : fs[path] = fs_done[path]
       /\ \A path \in InputPaths : fs[path] = fs_start[path]

\* C9 witness: a second run completed, over an input file holding two records
C9_Witness ==
    /\ pc = "done"
    /\ run = 2
    /\ Len(Written) = Len(file_names) * Len(functions)
    /\ \E path \in InputPaths : Len(fs[path][1].body) = 2

\* the operations op1, op2, op3 on `path` occur in this order in the log
InOrder(path, op1, op2, op3) ==
    \E a \in 1..Len(log) :
       /\ log[a] = Event(op1, path)
       /\ \E b \in (a + 1)..Len(log) :
             /\ log[b] = Event(op2, path)
             /\ \E c \in (b + 1)..Len(log) : log[c] = Event(op3, path)

\* C10: at most one file handle is open at any time; while an input file is
\* read only its handle is open, and it was opened, read and closed before a
\* transform is applied to its records; an output handle is open only while
\* the already complete output sequence is written, alone, and it is closed
\* before the next transform or file is taken; after an abort none is open.
C10_HandlesScoped ==
    /\ Cardinality(handles) <= 1
    /\ pc \in {"load", "close_input"} => handles = {file_path}
    /\ pc \in {"dump", "close_output"}
          => /\ handles = {new_file_path}
             /\ data.type = "dict"
             /\ Len(processed_data) = Len(data.items)
    /\ pc \in {"open_input", "process", "open_output", "next_file", "done", "failed"}
          => handles = {}
    /\ pc \in {"process", "open_output", "dump", "close_output"}
          => InOrder(file_path, "open_r", "read", "close")
    /\ pc \in {"process", "next_file"} /\ function_index > 1
          => InOrder(OutputOf(file_index, function_index - 1),
                     "open_w", "write", "close")
    /\ ~error.ok => handles = {}

\* C10 witness: the second file was opened and failed to parse, after the
\* first file's outputs were written and closed
C10_Witness ==
    /\ ~error.ok
    /\ error.exc = "JSONDecodeError"
    /\ file_index = 2
    /\ handles = {}
    /\ log[Len(log)] = Event("close", file_path)
    /\ log[Len(log) - 1] = Event("open_r", file_path)

====
